---------------------------- MODULE Spec2Model ----------------------------
(***************************************************************************)
(* Model of the curses file explorer in src/ws.py: the tree flattener      *)
(* (flatten_tree) and the navigation loop (main).                          *)
(*                                                                         *)
(* Paths are sequences of entry names, <<>> being the filesystem root.     *)
(* A name is a string; NameCodes gives its code points so that             *)
(* str.lower() and the string comparison of sorted() are computed.         *)
(* A label (display_name) is the sequence of the glyphs and names that the *)
(* code concatenates, in the order it concatenates them.                   *)
(***************************************************************************)
EXTENDS Integers, Sequences, FiniteSets, TLC

VARIABLES fs, path, expanded_dirs, flat_items, selected, offset, page_size,
          key, full_path, is_dir, pc, tog, downs

vars == <<fs, path, expanded_dirs, flat_items, selected, offset, page_size,
          key, full_path, is_dir, pc, tog, downs>>

(* ------------------------------ bounds --------------------------------- *)

\* Largest viewport height (stdscr.getmaxyx()[0]) the model draws from.
MaxHeight == 4

\* Cap of the counter of consecutive MoveDown events.
MaxDowns == 8

(* ------------------------------ glyphs --------------------------------- *)

FOLDER_ICON == "FOLDER"
FILE_ICON == "FILE"
PLUS_ICON == "+"
NO_ACCESS_ICON == "NOACCESS"
TEE == "TEE"
CORNER == "CORNER"
BLANK3 == "BLANK3"
VBAR3 == "VBAR3"
SP == " "

(* --------------------------- names and paths --------------------------- *)

NameCodes ==
  [n \in {"r", "dir1", "dir2", "a.txt", "A.txt", "B.txt", "c.txt",
          "d", "e", "f", "g", "x", "..", ""} |->
     CASE n = "r"     -> <<114>>
       [] n = "dir1"  -> <<100, 105, 114, 49>>
       [] n = "dir2"  -> <<100, 105, 114, 50>>
       [] n = "a.txt" -> <<97, 46, 116, 120, 116>>
       [] n = "A.txt" -> <<65, 46, 116, 120, 116>>
       [] n = "B.txt" -> <<66, 46, 116, 120, 116>>
       [] n = "c.txt" -> <<99, 46, 116, 120, 116>>
       [] n = "d"     -> <<100>>
       [] n = "e"     -> <<101>>
       [] n = "f"     -> <<102>>
       [] n = "g"     -> <<103>>
       [] n = "x"     -> <<120>>
       [] n = ".."    -> <<46, 46>>
       [] n = ""      -> <<>>]

\* str.lower() on the code points of an ASCII name.
lower(cs) == [i \in 1..Len(cs) |-> IF cs[i] >= 65 /\ cs[i] <= 90 THEN cs[i] + 32 ELSE cs[i]]

\* Python's < on strings: lexicographic on code points, a proper prefix first.
StrLess(s, t) ==
  \E i \in 1..(Len(t)) :
     /\ i <= Len(s) + 1
     /\ \A j \in 1..(i - 1) : s[j] = t[j]
     /\ \/ i = Len(s) + 1
        \/ s[i] < t[i]

dirname(p) == IF p = <<>> THEN p ELSE SubSeq(p, 1, Len(p) - 1)

basename(p) == IF p = <<>> THEN "" ELSE p[Len(p)]

join(p, entry) == Append(p, entry)

(* ----------------------------- filesystem ------------------------------ *)

\* The scenario of the specification: dir1 empty, dir2 holding c.txt.
FsScenario ==
  [dirs   |-> {<<>>, <<"r">>, <<"r", "dir1">>, <<"r", "dir2">>},
   files  |-> {<<"r", "dir2", "c.txt">>, <<"r", "a.txt">>, <<"r", "B.txt">>},
   denied |-> {}]

\* Nested directories, an unreadable directory, two names equal up to case.
FsNested ==
  [dirs   |-> {<<>>, <<"d">>, <<"d", "e">>, <<"x">>},
   files  |-> {<<"d", "e", "f">>, <<"d", "g">>, <<"a.txt">>, <<"A.txt">>},
   denied |-> {<<"x">>}]

\* A filesystem root without entries.
FsEmpty == [dirs |-> {<<>>}, files |-> {}, denied |-> {}]

\* A filesystem root that cannot be listed, above a readable directory.
FsDeniedRoot == [dirs |-> {<<>>, <<"r">>}, files |-> {}, denied |-> {<<>>}]

\* Two names equal up to case inside a directory listed before another one.
FsCase ==
  [dirs   |-> {<<>>, <<"d">>, <<"x">>},
   files  |-> {<<"d", "a.txt">>, <<"d", "A.txt">>},
   denied |-> {}]

FileSystems == {FsScenario, FsNested, FsEmpty, FsDeniedRoot, FsCase}

isdir(f, p) == p \in f.dirs

\* The names os.listdir(p) returns when it does not raise.
Entries(f, p) == { q[Len(q)] : q \in { c \in f.dirs \cup f.files : c # <<>> /\ dirname(c) = p } }

Perms(S) == { s \in [1..Cardinality(S) -> S] : \A i, j \in 1..Cardinality(S) : s[i] = s[j] => i = j }

\* os.listdir returns the entries "in arbitrary order": a listing order gives,
\* for each directory, the sequence one call returns.
RECURSIVE OrdersOver(_, _)
OrdersOver(f, D) ==
  IF D = {} THEN { <<>> }
  ELSE LET d == CHOOSE x \in D : TRUE
       IN { (d :> s) @@ o : s \in Perms(Entries(f, d)), o \in OrdersOver(f, D \ {d}) }

\* The listing orders of each filesystem of the model.
OrdersOf == [f \in FileSystems |-> OrdersOver(f, f.dirs)]

ListingOrders(f) == OrdersOf[f]

PermissionError(f, p) == p \in f.denied

(* ------------------------------ sorted() ------------------------------- *)

\* The key without .lower(): names compared with their case.
SortKeyCaseSensitive(x) == [notdir |-> ~x.is_dir, name |-> NameCodes[x.entry]]

\* key=lambda x: (not x[1], x[0].lower())
SortKey(x) == [notdir |-> ~x.is_dir, name |-> lower(NameCodes[x.entry])]

\* Python's <= on the key tuples (False < True, then the strings).
KeyLeq(a, b) ==
  \/ ~a.notdir /\ b.notdir
  \/ a.notdir = b.notdir /\ (a.name = b.name \/ StrLess(a.name, b.name))

\* sorted() is stable: an element goes after every element whose key is <= its own.
InsertSorted(t, x) ==
  LET n == Cardinality({ i \in 1..Len(t) : KeyLeq(SortKey(t[i]), SortKey(x)) })
  IN SubSeq(t, 1, n) \o <<x>> \o SubSeq(t, n + 1, Len(t))

RECURSIVE sorted(_)
sorted(s) ==
  IF s = <<>> THEN <<>>
  ELSE InsertSorted(sorted(SubSeq(s, 1, Len(s) - 1)), s[Len(s)])

(* --------------------------- flatten_tree ------------------------------ *)

\* The synthetic parent link of the root directory.
ParentRow(p, depth, prefix) ==
  [display_name |-> prefix \o <<TEE, SP, FOLDER_ICON, SP, "..">>,
   full_path |-> dirname(p), is_dir |-> TRUE, depth |-> depth]

\* try: sorted([(e, isdir(join(p, e))) for e in os.listdir(p)], key=...)
\* except PermissionError: []
Children(f, o, p) ==
  IF PermissionError(f, p) THEN <<>>
  ELSE sorted([i \in 1..Len(o[p]) |->
                 [entry |-> o[p][i], is_dir |-> isdir(f, join(p, o[p][i]))]])

\* The label without the test that the directory has entries.
DisplayNamePlusIfCollapsed(f, expanded, prefix, connector, entry, isd, fp) ==
  IF isd /\ fp \notin expanded /\ PermissionError(f, fp)
  THEN prefix \o <<connector, NO_ACCESS_ICON, FOLDER_ICON, SP, entry>>
  ELSE IF isd /\ fp \notin expanded
  THEN prefix \o <<connector, PLUS_ICON, FOLDER_ICON, SP, entry>>
  ELSE prefix \o <<connector, SP, IF isd THEN FOLDER_ICON ELSE FILE_ICON, SP, entry>>

\* The label of one child; os.listdir(full_path) is only evaluated, and can
\* only raise, when the child is a directory that is not expanded.
DisplayName(f, expanded, prefix, connector, entry, isd, fp) ==
  IF isd /\ fp \notin expanded /\ PermissionError(f, fp)
  THEN prefix \o <<connector, NO_ACCESS_ICON, FOLDER_ICON, SP, entry>>
  ELSE IF isd /\ fp \notin expanded /\ Entries(f, fp) # {}
  THEN prefix \o <<connector, PLUS_ICON, FOLDER_ICON, SP, entry>>
  ELSE prefix \o <<connector, SP, IF isd THEN FOLDER_ICON ELSE FILE_ICON, SP, entry>>

\* Recursing into every directory, expanded or not.
RecursesCollapsed(expanded, isd, fp) == isd

\* if is_dir and full_path in expanded: recurse(...)
Recurses(expanded, isd, fp) == isd /\ fp \in expanded

\* The `..` link at every depth, not only for the root of the view.
EmitsParentAnyDepth(p, depth) == dirname(p) # p

\* if depth == 0: parent = os.path.dirname(p); if parent != p: ...
EmitsParent(p, depth) == depth = 0 /\ dirname(p) # p

\* connector = "└─" if is_last else "├─"
Connector(is_last) == IF is_last THEN CORNER ELSE TEE

\* The continuation glyphs the wrong way round.
NewPrefixSwapped(prefix, is_last) == prefix \o <<IF is_last THEN VBAR3 ELSE BLANK3>>

\* new_prefix = prefix + ("   " if is_last else "│  ")
NewPrefix(prefix, is_last) == prefix \o <<IF is_last THEN BLANK3 ELSE VBAR3>>

RECURSIVE recurse(_, _, _, _, _, _)
RECURSIVE ChildRows(_, _, _, _, _, _, _, _)

\* The body of the for loop, from the child at position idx on.
ChildRows(f, expanded, o, p, depth, prefix, children, idx) ==
  IF idx > Len(children) THEN <<>>
  ELSE LET entry     == children[idx].entry
           isd       == children[idx].is_dir
           is_last   == (idx = Len(children))
           connector == Connector(is_last)
           fp        == join(p, entry)
           row       == [display_name |-> DisplayName(f, expanded, prefix, connector, entry, isd, fp),
                         full_path |-> fp, is_dir |-> isd, depth |-> depth]
           new_prefix == NewPrefix(prefix, is_last)
           below     == IF Recurses(expanded, isd, fp)
                        THEN recurse(f, expanded, o, fp, depth + 1, new_prefix)
                        ELSE <<>>
       IN <<row>> \o below \o ChildRows(f, expanded, o, p, depth, prefix, children, idx + 1)

recurse(f, expanded, o, p, depth, prefix) ==
  (IF EmitsParent(p, depth) THEN <<ParentRow(p, depth, prefix)>> ELSE <<>>)
  \o ChildRows(f, expanded, o, p, depth, prefix, Children(f, o, p), 1)

\* flatten_tree(path, expanded) under the listing order o.
flatten_tree(f, p, expanded, o) == recurse(f, expanded, o, p, 0, <<>>)

\* Every sequence one call of flatten_tree can return.
RECURSIVE ByExpanded(_, _, _)
ByExpanded(f, p, Es) ==
  IF Es = {} THEN <<>>
  ELSE LET e == CHOOSE x \in Es : TRUE
       IN (e :> { flatten_tree(f, p, e, o) : o \in ListingOrders(f) }) @@ ByExpanded(f, p, Es \ {e})

RECURSIVE ByPath(_, _)
ByPath(f, Ps) ==
  IF Ps = {} THEN <<>>
  ELSE LET p == CHOOSE x \in Ps : TRUE
       IN (p :> ByExpanded(f, p, SUBSET f.dirs)) @@ ByPath(f, Ps \ {p})

RECURSIVE ByFs(_)
ByFs(Fs) ==
  IF Fs = {} THEN <<>>
  ELSE LET f == CHOOSE x \in Fs : TRUE
       IN (f :> ByPath(f, f.dirs)) @@ ByFs(Fs \ {f})

\* The results of flatten_tree, computed once for every filesystem, root and
\* ExpansionState of the model.
FlattenTable == ByFs(FileSystems)

FlattenResults(f, p, expanded) == FlattenTable[f][p][expanded]

(* ------------------------------- main ---------------------------------- *)

NoToggle == [n |-> 0]

\* The viewport heights the terminal can report: two lines (page_size = 0) and up.
Heights == 2..MaxHeight

\* flat_items[selected]: a negative index counts from the end of the list.
PyIndex(n, i) == IF i < 0 THEN i + n ELSE i

IndexError(items, i) == PyIndex(Len(items), i) < 0 \/ PyIndex(Len(items), i) >= Len(items)

\* The row flat_items[i] (Python indices start at 0).
Item(items, i) == items[PyIndex(Len(items), i) + 1]

Init ==
  /\ fs \in FileSystems
  /\ path \in fs.dirs
  /\ expanded_dirs = {}
  /\ flat_items \in FlattenResults(fs, path, {})
  /\ selected = 0
  /\ offset = 0
  /\ page_size = 0
  /\ key = "NONE"
  /\ full_path = <<>>
  /\ is_dir = FALSE
  /\ pc = "render"
  /\ tog = NoToggle
  /\ downs = -1

\* The re-clamp against the length instead of the last index.
ClampSelectedToLen(sel, n) == IF sel > n THEN n ELSE sel

\* if selected > max_idx: selected = max_idx
ClampSelected(sel, n) == IF sel > n - 1 THEN n - 1 ELSE sel

\* The scroll adjustment without its "+ 1".
AdjustOffsetShort(sel, off, ps) ==
  IF sel < off THEN sel
  ELSE IF sel >= off + ps THEN sel - ps
  ELSE off

\* if selected < offset: ... elif selected >= offset + page_size: ...
AdjustOffset(sel, off, ps) ==
  IF sel < off THEN sel
  ELSE IF sel >= off + ps THEN sel - ps + 1
  ELSE off

\* The top of the loop up to the blocking getch: page size from the viewport,
\* re-clamp, draw.
Render ==
  /\ pc = "render"
  /\ \E h \in Heights :
       /\ page_size' = h - 2
       /\ selected' = ClampSelected(selected, Len(flat_items))
       /\ offset' = AdjustOffset(selected', offset, page_size')
  /\ pc' = "getch"
  /\ UNCHANGED <<fs, path, expanded_dirs, flat_items, key, full_path, is_dir, tog, downs>>

MoveUp(sel) == IF sel > 0 THEN sel - 1 ELSE sel

KeyUp ==
  /\ pc = "getch"
  /\ key' = "UP"
  /\ selected' = MoveUp(selected)
  /\ pc' = "render"
  /\ tog' = NoToggle
  /\ downs' = -1
  /\ UNCHANGED <<fs, path, expanded_dirs, flat_items, offset, page_size, full_path, is_dir>>

\* MoveDown without the guard on the last row.
MoveDownUnchecked(sel, n) == sel + 1

MoveDown(sel, n) == IF sel < n - 1 THEN sel + 1 ELSE sel

KeyDown ==
  /\ pc = "getch"
  /\ key' = "DOWN"
  /\ selected' = MoveDown(selected, Len(flat_items))
  /\ pc' = "render"
  /\ tog' = NoToggle
  /\ downs' = IF downs >= 0 THEN (IF downs < MaxDowns THEN downs + 1 ELSE downs)
              ELSE IF selected = 0 THEN 1 ELSE -1
  /\ UNCHANGED <<fs, path, expanded_dirs, flat_items, offset, page_size, full_path, is_dir>>

\* The state after an IndexError escaped the loop.
Fault ==
  /\ pc' = "fault"
  /\ UNCHANGED <<fs, path, expanded_dirs, flat_items, selected, offset, page_size,
                 full_path, is_dir>>

\* Toggle that only ever inserts.
ToggleAddOnly(expanded, fp) == expanded \cup {fp}

\* expanded_dirs.remove(full_path) / expanded_dirs.add(full_path)
Toggle(expanded, fp) == IF fp \in expanded THEN expanded \ {fp} ELSE expanded \cup {fp}

KeyRight ==
  /\ pc = "getch"
  /\ key' = "RIGHT"
  /\ downs' = -1
  /\ IF IndexError(flat_items, selected)
     THEN Fault /\ tog' = NoToggle
     ELSE LET row == Item(flat_items, selected) IN
          /\ full_path' = row.full_path
          /\ is_dir' = row.is_dir
          /\ IF row.is_dir
             THEN /\ expanded_dirs' = Toggle(expanded_dirs, row.full_path)
                  /\ flat_items' \in FlattenResults(fs, path, expanded_dirs')
                  /\ tog' = IF tog.n = 1 /\ tog.full_path = row.full_path
                            THEN [tog EXCEPT !.n = 2]
                            ELSE [n |-> 1, full_path |-> row.full_path,
                                  expanded |-> expanded_dirs, flat |-> flat_items]
             ELSE /\ UNCHANGED <<expanded_dirs, flat_items>>
                  /\ tog' = NoToggle
          /\ pc' = "render"
          /\ UNCHANGED <<fs, path, selected, offset, page_size>>

\* Collapse that forgets every expansion.
CollapseAll(expanded, fp) == {}

\* expanded_dirs.remove(full_path)
Collapse(expanded, fp) == expanded \ {fp}

KeyLeft ==
  /\ pc = "getch"
  /\ key' = "LEFT"
  /\ downs' = -1
  /\ IF IndexError(flat_items, selected)
     THEN Fault /\ tog' = NoToggle
     ELSE LET row == Item(flat_items, selected) IN
          /\ full_path' = row.full_path
          /\ is_dir' = row.is_dir
          /\ IF row.is_dir /\ row.full_path \in expanded_dirs
             THEN /\ expanded_dirs' = Collapse(expanded_dirs, row.full_path)
                  /\ flat_items' \in FlattenResults(fs, path, expanded_dirs')
                  /\ tog' = [n |-> 0, removed |-> row.full_path]
             ELSE /\ UNCHANGED <<expanded_dirs, flat_items>>
                  /\ tog' = NoToggle
          /\ pc' = "render"
          /\ UNCHANGED <<fs, path, selected, offset, page_size>>

\* if basename(full_path) == "..": path = dirname(path)
\* elif is_dir: path = full_path
EnterPath(p, row) ==
  IF basename(row.full_path) = ".." THEN dirname(p)
  ELSE IF row.is_dir THEN row.full_path
  ELSE p

\* Enter that keeps the expansions of the old root.
EnterExpandedKept(expanded, row) == expanded

\* elif is_dir: ...; expanded_dirs = set()
EnterExpanded(expanded, row) ==
  IF basename(row.full_path) = ".." THEN expanded
  ELSE IF row.is_dir THEN {}
  ELSE expanded

\* selected = 0 and offset = 0 close the Enter branch, whatever the row is.
EnterSelected(sel, row) == 0

EnterOffset(off, row) == 0

KeyEnter ==
  /\ pc = "getch"
  /\ key' = "ENTER"
  /\ downs' = -1
  /\ tog' = NoToggle
  /\ IF IndexError(flat_items, selected)
     THEN Fault
     ELSE LET row == Item(flat_items, selected) IN
          /\ full_path' = row.full_path
          /\ is_dir' = row.is_dir
          /\ path' = EnterPath(path, row)
          /\ expanded_dirs' = EnterExpanded(expanded_dirs, row)
          /\ flat_items' \in FlattenResults(fs, path', expanded_dirs')
          /\ selected' = EnterSelected(selected, row)
          /\ offset' = EnterOffset(offset, row)
          /\ pc' = "render"
          /\ UNCHANGED <<fs, page_size>>

\* A quit key that lets the loop go round.
KeyQuitGoesOn ==
  /\ pc = "getch"
  /\ key' = "QUIT"
  /\ pc' = "render"
  /\ UNCHANGED <<fs, path, expanded_dirs, flat_items, selected, offset, page_size,
                 full_path, is_dir, tog, downs>>

\* elif key in [ord('q'), 27]: break
KeyQuit ==
  /\ pc = "getch"
  /\ key' = "QUIT"
  /\ pc' = "quit"
  /\ UNCHANGED <<fs, path, expanded_dirs, flat_items, selected, offset, page_size,
                 full_path, is_dir, tog, downs>>

\* Any key no branch handles (KEY_RESIZE among them): the loop just goes round.
KeyOther ==
  /\ pc = "getch"
  /\ key' = "OTHER"
  /\ pc' = "render"
  /\ tog' = NoToggle
  /\ downs' = -1
  /\ UNCHANGED <<fs, path, expanded_dirs, flat_items, selected, offset, page_size,
                 full_path, is_dir>>

Next ==
  \/ Render
  \/ KeyUp
  \/ KeyDown
  \/ KeyRight
  \/ KeyLeft
  \/ KeyEnter
  \/ KeyQuit
  \/ KeyOther

Spec == Init /\ [][Next]_vars

TypeOK ==
  /\ fs \in FileSystems
  /\ path \in fs.dirs
  /\ expanded_dirs \subseteq fs.dirs
  /\ selected \in -1..Len(flat_items)
  /\ pc \in {"render", "getch", "quit", "fault"}

(* ------------------------------ properties ----------------------------- *)

Max(a, b) == IF a >= b THEN a ELSE b

\* The row is the `..` link of the root directory p.
IsParentLink(p, row) == dirname(p) # p /\ row.full_path = dirname(p)

\* The glyphs and names a label is made of.
Glyphs(label) == { label[i] : i \in 1..Len(label) }

\* p is a proper ancestor of q.
IsPrefix(p, q) == Len(p) < Len(q) /\ SubSeq(q, 1, Len(p)) = p

\* C1: at every render (after the re-clamp), 0 <= selectedIndex <=
\* max(0, len(flattened)-1) and scrollOffset >= 0, an empty flattened
\* sequence included.
C1_IndexBounds ==
  pc = "getch" =>
    /\ 0 <= selected
    /\ selected <= Max(0, Len(flat_items) - 1)
    /\ offset >= 0

\* C2 as stated: at every render, scrollOffset <= selectedIndex <
\* scrollOffset + pageSize, whatever pageSize the viewport gives.
C2_VisibleAnyPageSize ==
  pc = "getch" => offset <= selected /\ selected < offset + page_size

\* C2 amended: at every render at which pageSize >= 1 (a viewport of at least
\* three lines), scrollOffset <= selectedIndex < scrollOffset + pageSize.
C2_Visible ==
  (pc = "getch" /\ page_size >= 1) => offset <= selected /\ selected < offset + page_size

\* A render that had to scroll: the selection is the last visible row.
C2_Witness ==
  /\ pc = "getch"
  /\ page_size >= 1
  /\ offset > 0
  /\ selected = offset + page_size - 1
  /\ key = "DOWN"

\* C3: a directory child whose listing signals AccessDenied is a row with the
\* no-access marker and without rows of its own below it, whether or not its
\* path is in ExpansionState.
C3_NoAccessLeaf ==
  \A i \in 1..Len(flat_items) :
    LET row == flat_items[i] IN
    (row.is_dir /\ ~IsParentLink(path, row) /\ PermissionError(fs, row.full_path)) =>
      /\ NO_ACCESS_ICON \in Glyphs(row.display_name)
      /\ i < Len(flat_items) => flat_items[i + 1].depth <= row.depth

\* C4: Enter on a directory row makes that row's path the root (the parent of
\* the root for the `..` row), empties ExpansionState, sets selectedIndex and
\* scrollOffset to 0, and the flattened sequence is that of the new root
\* without expansions.
C4_EnterDirectory ==
  [][(pc = "getch" /\ key' = "ENTER" /\ ~IndexError(flat_items, selected)
      /\ Item(flat_items, selected).is_dir) =>
       LET row == Item(flat_items, selected) IN
       /\ path' = row.full_path
       /\ IsParentLink(path, row) => path' = dirname(path)
       /\ expanded_dirs' = {}
       /\ selected' = 0
       /\ offset' = 0
       /\ \E o \in ListingOrders(fs) : flat_items' = flatten_tree(fs, row.full_path, {}, o)
       /\ pc' = "render"]_vars

\* Enter on the `..` row of a top-level directory has made the filesystem
\* root the root of the view.
C4_Witness ==
  /\ pc = "render"
  /\ key = "ENTER"
  /\ is_dir
  /\ full_path = <<>>
  /\ path = <<>>
  /\ expanded_dirs = {}
  /\ selected = 0
  /\ offset = 0
  /\ Len(flat_items) > 1

\* C5: Enter on a file row changes none of root, ExpansionState,
\* selectedIndex, scrollOffset and the flattened sequence.
C5_EnterFileNoOp ==
  [][(pc = "getch" /\ key' = "ENTER" /\ ~IndexError(flat_items, selected)
      /\ ~Item(flat_items, selected).is_dir) =>
       UNCHANGED <<path, expanded_dirs, selected, offset, flat_items>>]_vars

\* Rows i and j are children listed for the same directory.
Siblings(p, items, i, j) ==
  /\ ~IsParentLink(p, items[i])
  /\ ~IsParentLink(p, items[j])
  /\ dirname(items[i].full_path) = dirname(items[j].full_path)

LowerName(row) == lower(NameCodes[basename(row.full_path)])

\* C6: within each sibling group of the flattened sequence every directory row
\* precedes every file row, and the names of the directories, and those of the
\* files, are in non-decreasing case-insensitive order, whatever order the
\* lister returned.
C6_SortInvariant ==
  \A i, j \in 1..Len(flat_items) :
    (i < j /\ Siblings(path, flat_items, i, j)) =>
      /\ flat_items[j].is_dir => flat_items[i].is_dir
      /\ flat_items[i].is_dir = flat_items[j].is_dir =>
           ~StrLess(LowerName(flat_items[j]), LowerName(flat_items[i]))

\* Two directories before two files, a.txt before B.txt, and a sorted
\* expanded subdirectory.
C6_Witness ==
  /\ path = <<"r">>
  /\ <<"r", "dir2">> \in expanded_dirs
  /\ \E i, j \in 1..Len(flat_items) :
       /\ i < j
       /\ flat_items[i].full_path = <<"r", "a.txt">>
       /\ flat_items[j].full_path = <<"r", "B.txt">>

\* C7: the flattened sequence depends only on the directory content and on
\* ExpansionState: every order in which the lister can return the entries
\* gives the sequence the program holds.
C7_Deterministic ==
  \A o \in ListingOrders(fs) : flat_items = flatten_tree(fs, path, expanded_dirs, o)

\* C8: ExpandOrCollapse applied twice in a row to the same directory row
\* returns ExpansionState to its prior membership and the flattened sequence
\* to the sequence before the first toggle.
C8_ToggleTwice ==
  tog.n = 2 => expanded_dirs = tog.expanded /\ flat_items = tog.flat

\* What C8 keeps of the flattened sequence: after the two toggles it is one of
\* the sequences flatten_tree can return for the prior ExpansionState.
ToggleTwiceUpToOrder ==
  tog.n = 2 =>
    /\ expanded_dirs = tog.expanded
    /\ tog.flat \in FlattenResults(fs, path, expanded_dirs)
    /\ flat_items \in FlattenResults(fs, path, expanded_dirs)

Min(a, b) == IF a <= b THEN a ELSE b

\* C9: MoveDown adds exactly 1 to selectedIndex below the last row and
\* nothing at it, MoveUp subtracts exactly 1 above the first row and nothing
\* at it, neither changes root, ExpansionState or the flattened sequence;
\* hence len(flattened) MoveDown events from index 0 end at len(flattened)-1,
\* without fault and without passing it.
C9_Saturation ==
  /\ [][/\ (pc = "getch" /\ key' = "DOWN") =>
             /\ selected' = (IF selected < Len(flat_items) - 1 THEN selected + 1 ELSE selected)
             /\ UNCHANGED <<path, expanded_dirs, flat_items>>
             /\ pc' = "render"
        /\ (pc = "getch" /\ key' = "UP") =>
             /\ selected' = (IF selected > 0 THEN selected - 1 ELSE selected)
             /\ UNCHANGED <<path, expanded_dirs, flat_items>>
             /\ pc' = "render"]_vars
  /\ [](downs >= 0 =>
          /\ pc # "fault"
          /\ selected <= Len(flat_items) - 1
          /\ downs < MaxDowns => selected = Min(downs, Len(flat_items) - 1)
          /\ downs >= Len(flat_items) => selected = Len(flat_items) - 1)

\* As many MoveDown events as there are rows, from index 0, on a sequence of
\* at least three rows.
C9_Witness ==
  /\ key = "DOWN"
  /\ Len(flat_items) >= 3
  /\ downs = Len(flat_items)
  /\ selected = Len(flat_items) - 1

\* The entries the flattener obtains for directory p (none on AccessDenied).
Listed(f, p) == IF PermissionError(f, p) THEN {} ELSE Entries(f, p)

\* The rows below row i that are deeper than it, up to the first that is not.
Block(items, i) ==
  { j \in (i + 1)..Len(items) : \A m \in (i + 1)..j : items[m].depth > items[i].depth }

\* Row i of items, a directory row, heads its subtree in pre-order.
PreOrderAt(f, items, expanded, i) ==
  LET row == items[i] IN
  IF row.full_path \in expanded
  THEN /\ \A j \in 1..Len(items) : IsPrefix(row.full_path, items[j].full_path) <=> j \in Block(items, i)
       /\ \A j \in Block(items, i) :
            dirname(items[j].full_path) = row.full_path => items[j].depth = row.depth + 1
       /\ { items[j].full_path : j \in { m \in Block(items, i) : items[m].depth = row.depth + 1 } }
            = { join(row.full_path, e) : e \in Listed(f, row.full_path) }
  ELSE Block(items, i) = {}

\* Every row is a child of the root at depth 0, the `..` link, or lies in the
\* block of the row of its own directory, which is expanded.
RowsUnderParents(p, items, expanded) ==
  \A j \in 1..Len(items) :
    IF items[j].depth = 0
    THEN IsParentLink(p, items[j]) \/ dirname(items[j].full_path) = p
    ELSE \E i \in 1..(j - 1) :
           /\ items[i].full_path = dirname(items[j].full_path)
           /\ items[i].full_path \in expanded
           /\ j \in Block(items, i)

\* The selected row is a collapsed directory without expanded descendants.
CollapsedLeafward(expanded, row) ==
  /\ row.is_dir
  /\ row.full_path \notin expanded
  /\ \A e \in expanded : ~IsPrefix(row.full_path, e)

\* Toggling row lengthens the sequence by its k children, right after it.
GrowsByChildren(f, before, after, row) ==
  LET k == Cardinality(Listed(f, row.full_path)) IN
  /\ Len(after) = Len(before) + k
  /\ \E i \in 1..Len(after) :
       /\ after[i].full_path = row.full_path
       /\ i + k <= Len(after)
       /\ \A m \in 1..k : /\ dirname(after[i + m].full_path) = row.full_path
                          /\ after[i + m].depth = row.depth + 1
  /\ { after[i].full_path : i \in 1..Len(after) }
       = { before[i].full_path : i \in 1..Len(before) }
         \cup { join(row.full_path, e) : e \in Listed(f, row.full_path) }

\* C10 as stated, for every directory row: the subtree of an expanded
\* directory is one contiguous block right after its row, its children one
\* level deeper; a directory absent from ExpansionState has no rows below it;
\* toggling expanded a collapsed directory with k children and no expanded
\* descendants lengthens the sequence by exactly k rows right after it.
C10_PreOrderEveryDirectory ==
  /\ [](/\ RowsUnderParents(path, flat_items, expanded_dirs)
        /\ \A i \in 1..Len(flat_items) :
             flat_items[i].is_dir => PreOrderAt(fs, flat_items, expanded_dirs, i))
  /\ [][(pc = "getch" /\ key' = "RIGHT" /\ ~IndexError(flat_items, selected)
         /\ CollapsedLeafward(expanded_dirs, Item(flat_items, selected))) =>
          GrowsByChildren(fs, flat_items, flat_items', Item(flat_items, selected))]_vars

\* C10 amended: the same, for every directory row other than the `..` link
\* of the root (whose path lies above the root and heads no subtree).
C10_PreOrder ==
  /\ [](/\ RowsUnderParents(path, flat_items, expanded_dirs)
        /\ \A i \in 1..Len(flat_items) :
             (flat_items[i].is_dir /\ ~IsParentLink(path, flat_items[i])) =>
                PreOrderAt(fs, flat_items, expanded_dirs, i))
  /\ [][(pc = "getch" /\ key' = "RIGHT" /\ ~IndexError(flat_items, selected)
         /\ ~IsParentLink(path, Item(flat_items, selected))
         /\ CollapsedLeafward(expanded_dirs, Item(flat_items, selected))) =>
          GrowsByChildren(fs, flat_items, flat_items', Item(flat_items, selected))]_vars

\* Directory d, with two children and nothing expanded below it, has just
\* been toggled expanded: four rows have become six.
C10_Witness ==
  /\ pc = "render"
  /\ key = "RIGHT"
  /\ path = <<>>
  /\ full_path = <<"d">>
  /\ expanded_dirs = {<<"d">>}
  /\ Len(flat_items) = 6
  /\ flat_items[selected + 2].full_path = <<"d", "e">>
  /\ flat_items[selected + 3].full_path = <<"d", "g">>

\* C11: ExpandOrCollapse on a directory row toggles the membership of exactly
\* that row's path in ExpansionState, leaves the root and the numeric
\* selectedIndex as they are; on a file row it changes nothing.
C11_ToggleFrame ==
  [][(pc = "getch" /\ key' = "RIGHT" /\ ~IndexError(flat_items, selected)) =>
       LET row == Item(flat_items, selected) IN
       IF row.is_dir
       THEN /\ (expanded_dirs' \ expanded_dirs) \cup (expanded_dirs \ expanded_dirs')
                 = {row.full_path}
            /\ (row.full_path \in expanded_dirs') = (row.full_path \notin expanded_dirs)
            /\ path' = path
            /\ selected' = selected
            /\ pc' = "render"
       ELSE /\ UNCHANGED <<path, expanded_dirs, selected, offset, flat_items>>
            /\ pc' = "render"]_vars

\* A second directory has just been toggled into ExpansionState, the
\* selection staying on its row.
C11_Witness ==
  /\ pc = "render"
  /\ key = "RIGHT"
  /\ is_dir
  /\ full_path \in expanded_dirs
  /\ Cardinality(expanded_dirs) >= 2
  /\ selected > 0
  /\ Item(flat_items, selected).full_path = full_path

\* C12: Collapse on an expanded directory row removes exactly that row's path
\* and recomputes the flattened sequence; on any other row it changes nothing;
\* it never adds a path and never changes the root or selectedIndex.
C12_CollapseFrame ==
  [][(pc = "getch" /\ key' = "LEFT" /\ ~IndexError(flat_items, selected)) =>
       LET row == Item(flat_items, selected) IN
       /\ IF row.is_dir /\ row.full_path \in expanded_dirs
          THEN /\ expanded_dirs' = expanded_dirs \ {row.full_path}
               /\ \E o \in ListingOrders(fs) :
                    flat_items' = flatten_tree(fs, path, expanded_dirs', o)
          ELSE UNCHANGED <<expanded_dirs, flat_items>>
       /\ expanded_dirs' \subseteq expanded_dirs
       /\ path' = path
       /\ selected' = selected
       /\ pc' = "render"]_vars

\* Collapse has just removed one path while another stays expanded.
C12_Witness ==
  /\ pc = "render"
  /\ key = "LEFT"
  /\ tog = [n |-> 0, removed |-> full_path]
  /\ full_path \notin expanded_dirs
  /\ expanded_dirs # {}

\* C13: a listing failure never aborts a transition: where some directory
\* signals AccessDenied, the root of the view included, every event completes
\* and no fault state is reached.
C13_NoFaultOnAccessDenied ==
  fs.denied # {} => pc # "fault"

\* C14: Quit is enabled wherever the program waits for an event, changes none
\* of root, selectedIndex, scrollOffset and ExpansionState, and leads to a
\* terminal state that no transition leaves.
C14_QuitTerminal ==
  /\ [](pc = "getch" => ENABLED KeyQuit)
  /\ [][/\ (pc = "getch" /\ key' = "QUIT") =>
             /\ pc' = "quit"
             /\ UNCHANGED <<path, selected, offset, expanded_dirs, flat_items>>
        /\ pc # "quit"]_vars

\* Quit after some navigation: a scrolled selection and an expansion survive.
C14_Witness ==
  /\ pc = "quit"
  /\ key = "QUIT"
  /\ selected > 0
  /\ offset > 0
  /\ expanded_dirs # {}

\* C15: every member of ExpansionState is a directory whose listing does not
\* signal AccessDenied (the filesystem does not change, so listable at
\* insertion is listable now).
C15_ExpandedListable ==
  \A p \in expanded_dirs : isdir(fs, p) /\ ~PermissionError(fs, p)

\* The glyph between the connector and the type icon of a row's label.
Marker(row) == row.display_name[row.depth + 2]

\* The row carries the plus marker exactly when it is a directory absent from
\* ExpansionState whose listing succeeds with an entry; then nothing is below it.
PlusRule(f, items, expanded, i) ==
  LET row == items[i] IN
  /\ (Marker(row) = PLUS_ICON) <=>
       /\ row.is_dir
       /\ row.full_path \notin expanded
       /\ ~PermissionError(f, row.full_path)
       /\ Entries(f, row.full_path) # {}
  /\ Marker(row) = PLUS_ICON => Block(items, i) = {}

\* C16 as stated, for every row: the plus marker is on a directory row if and
\* only if its path is absent from ExpansionState and its listing succeeds
\* with at least one entry; a plus-marked directory is never recursed into.
C16_PlusEveryRow ==
  \A i \in 1..Len(flat_items) : PlusRule(fs, flat_items, expanded_dirs, i)

\* C16 amended: the same for every row other than the `..` link, which never
\* carries the marker.
C16_Plus ==
  \A i \in 1..Len(flat_items) :
    IF IsParentLink(path, flat_items[i])
    THEN Marker(flat_items[i]) # PLUS_ICON
    ELSE PlusRule(fs, flat_items, expanded_dirs, i)

\* The empty dir1 has been toggled: it and the file rows are plain, the
\* collapsed dir2, which holds c.txt, carries the plus.
C16_Witness ==
  /\ pc = "render"
  /\ key = "RIGHT"
  /\ path = <<"r">>
  /\ expanded_dirs = {<<"r", "dir1">>}
  /\ Len(flat_items) = 5
  /\ Marker(flat_items[2]) = SP
  /\ flat_items[3].full_path = <<"r", "dir2">>
  /\ Marker(flat_items[3]) = PLUS_ICON
  /\ Marker(flat_items[4]) = SP

\* The rows whose label names the parent link.
ParentLinkRows(items) ==
  { i \in 1..Len(items) : items[i].display_name[Len(items[i].display_name)] = ".." }

\* C17: the `..` row is emitted if and only if the root has a distinct parent;
\* it is then one row, the first, at depth 0, a directory, with the parent's
\* path; no expanded subdirectory gets one; so the sequence is not empty
\* unless the root is a filesystem root.
C17_ParentLink ==
  /\ (ParentLinkRows(flat_items) # {}) <=> (dirname(path) # path)
  /\ \A i \in ParentLinkRows(flat_items) :
       /\ i = 1
       /\ flat_items[i].depth = 0
       /\ flat_items[i].is_dir
       /\ flat_items[i].full_path = dirname(path)
  /\ dirname(path) # path => Len(flat_items) >= 1

\* Below the top-level directory d its subdirectory e is expanded: four rows,
\* the `..` row first and only.
C17_Witness ==
  /\ path = <<"d">>
  /\ fs = FsNested
  /\ <<"d", "e">> \in expanded_dirs
  /\ Len(flat_items) = 4
  /\ ParentLinkRows(flat_items) = {1}
  /\ flat_items[3].depth = 1

\* C18: the re-clamp first lowers selectedIndex to the last index if it
\* exceeds it; then scrollOffset stays when the selection is visible, becomes
\* selectedIndex when the selection is above it, and selectedIndex - pageSize
\* + 1 when the selection is at or below scrollOffset + pageSize; root,
\* ExpansionState and the flattened sequence are not changed.
C18_Reclamp ==
  [][(pc = "render" /\ pc' = "getch") =>
       LET last == Len(flat_items) - 1 IN
       /\ selected' = (IF selected > last THEN last ELSE selected)
       /\ (offset <= selected' /\ selected' < offset + page_size') => offset' = offset
       /\ selected' < offset => offset' = selected'
       /\ (selected' >= offset /\ selected' >= offset + page_size') =>
            offset' = selected' - page_size' + 1
       /\ UNCHANGED <<path, expanded_dirs, flat_items>>]_vars

\* After MoveUp the selection was above the window and the window followed it.
C18_Witness ==
  /\ pc = "getch"
  /\ key = "UP"
  /\ page_size >= 2
  /\ selected > 0
  /\ offset = selected

\* The row of the directory with path p, if the sequence shows it.
RowOf(items, p) == CHOOSE i \in 1..Len(items) : items[i].full_path = p

\* Row i is the last of the children listed for its directory.
LastSibling(p, items, i) ==
  \A j \in (i + 1)..Len(items) :
    IsParentLink(p, items[j]) \/ dirname(items[j].full_path) # dirname(items[i].full_path)

\* C19: among the children listed for one directory exactly the last in
\* sorted order has the corner connector and the others the tee; the label of
\* a row at depth d starts with d segments, one per ancestor below the root,
\* blank if that ancestor was the last of its siblings and a bar otherwise.
C19_Connectors ==
  \A i \in 1..Len(flat_items) :
    LET row == flat_items[i] IN
    ~IsParentLink(path, row) =>
      /\ Len(row.display_name) = row.depth + 5
      /\ row.depth = Len(row.full_path) - Len(path) - 1
      /\ row.display_name[row.depth + 1] =
           (IF LastSibling(path, flat_items, i) THEN CORNER ELSE TEE)
      /\ \A m \in 1..row.depth :
           LET anc == RowOf(flat_items, SubSeq(row.full_path, 1, Len(path) + m)) IN
           /\ anc < i
           /\ flat_items[anc].depth = m - 1
           /\ row.display_name[m] =
                (IF LastSibling(path, flat_items, anc) THEN BLANK3 ELSE VBAR3)

\* c.txt two levels down: blank below r, the only child of the root, a bar
\* below dir2, which files follow, and the corner of an only child.
C19_Witness ==
  /\ path = <<>>
  /\ {<<"r">>, <<"r", "dir2">>} \subseteq expanded_dirs
  /\ \E i \in 1..Len(flat_items) :
       /\ flat_items[i].full_path = <<"r", "dir2", "c.txt">>
       /\ flat_items[i].display_name = <<BLANK3, VBAR3, CORNER, SP, FILE_ICON, SP, "c.txt">>

\* The rows up to Python index sel are kept: those above it entirely, the row
\* at sel in everything but the marker of its label.
KeepsRowsUpTo(before, after, sel) ==
  /\ Len(after) > sel
  /\ \A i \in 1..sel : after[i] = before[i]
  /\ after[sel + 1].full_path = before[sel + 1].full_path
  /\ after[sel + 1].depth = before[sel + 1].depth
  /\ after[sel + 1].is_dir = before[sel + 1].is_dir
  /\ Len(after[sel + 1].display_name) = Len(before[sel + 1].display_name)
  /\ \A m \in 1..Len(before[sel + 1].display_name) :
       m # before[sel + 1].depth + 2 =>
         after[sel + 1].display_name[m] = before[sel + 1].display_name[m]

\* The event is ExpandOrCollapse or Collapse on a directory row.
TogglesDirectory ==
  /\ pc = "getch"
  /\ key' \in {"RIGHT", "LEFT"}
  /\ ~IndexError(flat_items, selected)
  /\ Item(flat_items, selected).is_dir

\* C20: ExpandOrCollapse or Collapse on the selected directory row changes the
\* flattened sequence only below selectedIndex, apart from the marker of the
\* selected row; after the event and its re-clamp selectedIndex is the same
\* and still designates the toggled directory.
C20_ToggleLocal ==
  /\ [][/\ TogglesDirectory =>
             /\ KeepsRowsUpTo(flat_items, flat_items', selected)
             /\ selected' = selected
        /\ (pc = "render" /\ key \in {"RIGHT", "LEFT"} /\ is_dir) => selected' = selected]_vars
  /\ []((pc = "getch" /\ key \in {"RIGHT", "LEFT"} /\ is_dir) =>
          /\ ~IndexError(flat_items, selected)
          /\ Item(flat_items, selected).full_path = full_path)

\* What C20 keeps: the same, whenever the sequences before and after the
\* event come from one and the same listing order.
ToggleLocalSameOrder ==
  [][(TogglesDirectory
      /\ \E o \in ListingOrders(fs) :
           /\ flat_items = flatten_tree(fs, path, expanded_dirs, o)
           /\ flat_items' = flatten_tree(fs, path, expanded_dirs', o)) =>
       KeepsRowsUpTo(flat_items, flat_items', selected)]_vars

=============================================================================
